---- MODULE Spec2Model ----
(***************************************************************************)
(* Model of the two command line scripts of the annotation workflow:       *)
(*   .github/workflows/update_pages.py     (modulation plans, site files)  *)
(*   .github/workflows/concat_metadata.py  (metadata aggregation, README)  *)
(* Each script is a sequential program; a program counter records the      *)
(* position of the run.  The scripts share no state, so each has its own   *)
(* specification over its own group of variables.                          *)
(***************************************************************************)
EXTENDS Integers, Sequences, FiniteSets, TLC

VARIABLES
    \* ---- create_modulation_plan / create_gantt (update_pages.py) ----
    pc,             \* position inside create_modulation_plan / create_gantt
    data_in,        \* the table the caller passed
    data,           \* the local variable `data`
    task_column, sort_and_fill, globalkey, phraseends, layout_arg,
    missing,        \* the local set `missing`
    transposed,     \* the local series `transposed`
    title,
    fig,            \* the returned figure
    \* ---- get_phraseends (update_pages.py) ----
    ph_pc, at, column, ph_result,
    \* ---- main of update_pages.py ----
    site_pc, scores, score_i, gantt_dir, out_files, gantt_md,
    \* ---- main of concat_metadata.py ----
    md_pc, folders, concatenated, tsv_file, readme, md_str, error,
    written,        \* the files this run has opened for writing
    \* ---- int2bool (concat_metadata.py) ----
    b_pc,
    b_arg,          \* the argument `s`
    b_out,          \* what the call returned or raised
    \* ---- write_md called repeatedly (concat_metadata.py) ----
    wm_calls,       \* number of calls made so far
    wm_md,          \* the argument `md_str`
    wm_file,        \* the file at md_path
    wm_once         \* the file as the first call left it

planVars  == <<pc, data_in, data, task_column, sort_and_fill, globalkey,
               phraseends, layout_arg, missing, transposed, title, fig>>
phraseVars == <<ph_pc, at, column, ph_result>>
siteVars  == <<site_pc, scores, score_i, gantt_dir, out_files, gantt_md>>
metaVars  == <<md_pc, folders, concatenated, tsv_file, readme, md_str, error,
               written>>
boolVars == <<b_pc, b_arg, b_out>>
readmeVars == <<wm_calls, wm_md, wm_file, wm_once>>
vars == <<planVars, phraseVars, siteVars, metaVars, boolVars, readmeVars>>

----------------------------------------------------------------------------
(* Generic helpers: Python values.                                         *)

\* Python's None for optional arguments, and a present value.
None == [some |-> FALSE]
Some(v) == [some |-> TRUE, val |-> v]

\* None where a string is expected.
NoneStr == "None"

Min(S) == CHOOSE x \in S : \A y \in S : x <= y
Max(S) == CHOOSE x \in S : \A y \in S : x >= y

RemoveAt(s, i) == SubSeq(s, 1, i - 1) \o SubSeq(s, i + 1, Len(s))

Range(s) == {s[i] : i \in DOMAIN s}

\* All sequences over S of length 0..n.
SeqsUpTo(S, n) == UNION {[1..k -> S] : k \in 0..n}

\* dict.update: the entries of e replace or extend those of d.
DictUpdate(d, e) ==
    [k \in (DOMAIN d) \cup (DOMAIN e) |-> IF k \in DOMAIN e THEN e[k] ELSE d[k]]

EmptyDict == [k \in {} |-> NoneStr]

----------------------------------------------------------------------------
(* Bounds of the chart model.                                              *)

MaxRecs == 2        \* records in an input table
MaxPos == 3         \* largest axis value in an input table
MaxNeg == 2         \* the smallest fifths value is -MaxNeg

----------------------------------------------------------------------------
(* update_pages.py: styling constants.                                     *)

KEY_COLORS ==
    ("applied" :> "rgb(228,26,28)") @@ ("local" :> "rgb(55,126,184)")
    @@ ("tonic of adjacent applied chord(s)" :> "rgb(77,175,74)")
PHRASEEND_LINES == [color |-> "rgb(0, 0, 0)", width |-> "0.2", dash |-> "longdash"]
Y_AXIS == "Tonicized keys"

NumericAxes == {"semitones", "fifths"}

----------------------------------------------------------------------------
(* The functions update_pages.py imports from ms3, on the values the model *)
(* uses.                                                                   *)

GlobalKeys == {"G", "F", "a"}

\* name2fifths: position of the key's tonic on the line of fifths (C = 0).
name2fifths(key) ==
    CASE key = "G" -> 1 [] key = "F" -> -1 [] key = "a" -> 3 [] key = "C" -> 0

\* name2pc: pitch class of the key's tonic (C = 0).
name2pc(key) ==
    CASE key = "G" -> 7 [] key = "F" -> 5 [] key = "a" -> 9 [] key = "C" -> 0

RECURSIVE Repeat(_, _)
Repeat(str, n) == IF n <= 0 THEN "" ELSE str \o Repeat(str, n - 1)

\* fifths2name: note name of a position on the line of fifths.
fifths2name(fifths) ==
    LET letters == <<"F", "C", "G", "D", "A", "E", "B">>
        acc == (fifths + 1) \div 7
    IN  letters[((fifths + 1) % 7) + 1]
            \o (IF acc >= 0 THEN Repeat("#", acc) ELSE Repeat("b", -acc))

\* midi2name: name of the pitch class of a MIDI pitch.
midi2name(midi) ==
    LET names == <<"C", "C#/Db", "D", "D#/Eb", "E", "F", "F#/Gb", "G",
                   "G#/Ab", "A", "A#/Bb", "B">>
    IN  names[(midi % 12) + 1]

\* transform(series, func): func applied to every element, index kept.
transform(series, func) ==
    [i \in DOMAIN series |->
        IF func = "fifths2name" THEN fifths2name(series[i]) ELSE midi2name(series[i])]

\* str.upper and the order of Python strings, on the numerals of the model.
Numerals == {"I", "V", "iv"}
Upper(str) == IF str = "iv" THEN "IV" ELSE str
StrRank(str) == CASE str = "I" -> 1 [] str = "IV" -> 2 [] str = "V" -> 3

----------------------------------------------------------------------------
(* create_modulation_plan                                                  *)

\* The column task_column of a table, as a sequence.
Column(df) == [i \in DOMAIN df |-> df[i].Task]

\* DataFrame.sort_values(task_column, ascending=False[, key]): the rows in
\* descending order of key; the order among rows of equal key is left to the
\* sorting algorithm, so every such order is a possible outcome.
NumKey(rec) == rec.Task
UpperKey(rec) == StrRank(Upper(rec.Task))
SortKey(rec, by_upper) == IF by_upper THEN UpperKey(rec) ELSE NumKey(rec)

RECURSIVE sort_values(_, _)
sort_values(df, by_upper) ==
    IF df = <<>> THEN {<<>>}
    ELSE LET top == Max({SortKey(df[i], by_upper) : i \in DOMAIN df})
             firsts == {i \in DOMAIN df : SortKey(df[i], by_upper) = top}
         IN  UNION {{<<df[i]>> \o rest
                        : rest \in sort_values(RemoveAt(df, i), by_upper)}
                     : i \in firsts}

\* mi = min((0, mi))
ClampMin(mi) == Min({0, mi})

\* A range that starts one too late.
CompleteFromNext(mi, ma) == {v \in (mi + 1)..ma : v < ma}

\* set(range(mi, ma))
Complete(mi, ma) == {v \in mi..ma : v < ma}

\* complete.difference(set(data[task_column]))
Missing(df) ==
    LET mi == ClampMin(Min(Range(Column(df))))
        ma == Max(Range(Column(df)))
    IN  Complete(mi, ma) \ Range(Column(df))

\* One record of missing_data.
Placeholder(m) == [Start |-> 0, Finish |-> 0, Resource |-> "local", Task |-> m]

RECURSIVE from_records(_)
from_records(S) ==
    IF S = {} THEN <<>>
    ELSE LET m == CHOOSE x \in S : TRUE
         IN  <<Placeholder(m)>> \o from_records(S \ {m})

\* Lines 72-87.
SortAndFill ==
    /\ pc = "start"
    /\ IF sort_and_fill
       THEN IF task_column \in NumericAxes
            THEN IF data = <<>>
                 THEN \* min() of an empty column is not an integer: range() raises
                      /\ pc' = "error"
                      /\ UNCHANGED <<data, missing>>
                 ELSE /\ missing' = Missing(data)
                      /\ data' \in sort_values(data \o from_records(Missing(data)), FALSE)
                      /\ pc' = "filled"
            ELSE /\ data' \in sort_values(data, TRUE)
                 /\ pc' = "filled"
                 /\ UNCHANGED missing
       ELSE /\ pc' = "filled"
            /\ UNCHANGED <<data, missing>>
    /\ UNCHANGED <<data_in, task_column, sort_and_fill, globalkey, phraseends,
                   layout_arg, transposed, title, fig>>
    /\ UNCHANGED <<phraseVars, siteVars, metaVars, boolVars, readmeVars>>

\* tonic = name2fifths(globalkey) / name2pc(globalkey)
Tonic(tc, key) == IF tc = "fifths" THEN name2fifths(key) ELSE name2pc(key)

\* A transposition that leaves the placeholder records where they are.
TransposedInputOnly(df, tonic) ==
    [i \in DOMAIN df |-> IF df[i].Finish = 0 THEN df[i].Task ELSE df[i].Task + tonic]

\* transposed = data.<task_column> + tonic
Transposed(df, tonic) == [i \in DOMAIN df |-> df[i].Task + tonic]

SetColumn(df, series) == [i \in DOMAIN df |-> [df[i] EXCEPT !.Task = series[i]]]

\* Lines 89-98.
Transpose ==
    /\ pc = "filled"
    /\ IF globalkey # NoneStr
       THEN /\ title' = title \o " (" \o globalkey \o ")"
            /\ IF task_column = "fifths"
               THEN /\ transposed' = Transposed(data, Tonic(task_column, globalkey))
                    /\ data' = SetColumn(data, transform(transposed', "fifths2name"))
               ELSE IF task_column = "semitones"
               THEN /\ transposed' = Transposed(data, Tonic(task_column, globalkey))
                    /\ data' = SetColumn(data, transform(transposed', "midi2name"))
               ELSE UNCHANGED <<data, transposed>>
       ELSE UNCHANGED <<title, data, transposed>>
    /\ pc' = "transposed"
    /\ UNCHANGED <<data_in, task_column, sort_and_fill, globalkey, phraseends,
                   layout_arg, missing, fig>>
    /\ UNCHANGED <<phraseVars, siteVars, metaVars, boolVars, readmeVars>>

\* shapes: one vertical line per phrase end (lines 113-121).
PhraseendShapes(positions) ==
    [i \in DOMAIN positions |->
        [type |-> "line", x0 |-> positions[i], y0 |-> 0,
         x1 |-> positions[i], y1 |-> 20, line |-> PHRASEEND_LINES]]

\* ytitle (lines 100-102).
YTitle(tc) == IF tc \in NumericAxes THEN Y_AXIS \o " (" \o tc \o ")" ELSE Y_AXIS

\* layout (lines 105-108).
PlanLayout(tc) ==
    [xaxis |-> [type |-> NoneStr, title |-> "Measures"],
     yaxis |-> [title |-> YTitle(tc)]]

----------------------------------------------------------------------------
(* create_gantt                                                            *)

\* The figure plotly.figure_factory.create_gantt returns: one bar per record,
\* coloured by Resource, and an x-axis of type 'date'.
ff_create_gantt(df, colors, ttl) ==
    [title |-> ttl,
     bars |-> [i \in DOMAIN df |->
                 [Task |-> df[i].Task, Start |-> df[i].Start,
                  Finish |-> df[i].Finish, color |-> colors[df[i].Resource]]],
     layout |-> [xaxis |-> [type |-> "date", showgrid |-> "True"],
                 yaxis |-> [showgrid |-> "True"]],
     shapes |-> <<>>,
     annotations |-> <<>>]

\* default_layout = dict(xaxis = {'type': None}); default_layout.update(layout)
DefaultLayout(layout) ==
    IF layout.some THEN DictUpdate([xaxis |-> [type |-> NoneStr]], layout.val)
    ELSE [xaxis |-> [type |-> NoneStr]]

\* for key, dictionary in default_layout.items():
\*     fig['layout'][key].update(dictionary)
UpdateLayout(fig_layout, default_layout) ==
    [key \in (DOMAIN fig_layout) \cup (DOMAIN default_layout) |->
        IF key \in DOMAIN default_layout
        THEN DictUpdate(IF key \in DOMAIN fig_layout THEN fig_layout[key] ELSE EmptyDict,
                        default_layout[key])
        ELSE fig_layout[key]]

\* Lines 235-273.  The column task_column is the table's Task column.
create_gantt(df, ttl, colors, layout, shapes, annotations) ==
    LET f == ff_create_gantt(df, colors, ttl)
    IN  [f EXCEPT !.layout = UpdateLayout(f.layout, DefaultLayout(layout)),
                  !.shapes = IF shapes.some THEN f.shapes \o shapes.val ELSE f.shapes,
                  !.annotations = IF annotations.some THEN annotations.val
                                  ELSE f.annotations]

NoFig == [title |-> "", bars |-> <<>>, layout |-> EmptyDict, shapes |-> <<>>,
          annotations |-> <<>>]

\* Lines 100-186: layout, colors, shapes, and the call of create_gantt.
Render ==
    /\ pc = "transposed"
    /\ fig' = create_gantt(data, title, KEY_COLORS, Some(PlanLayout(task_column)),
                           IF phraseends.some
                           THEN Some(PhraseendShapes(phraseends.val)) ELSE None,
                           None)
    /\ pc' = "done"
    /\ UNCHANGED <<data_in, data, task_column, sort_and_fill, globalkey, phraseends,
                   layout_arg, missing, transposed, title>>
    /\ UNCHANGED <<phraseVars, siteVars, metaVars, boolVars, readmeVars>>

\* A caller other than create_modulation_plan calls create_gantt with its own
\* layout, shapes and annotations.
CallCreateGantt ==
    /\ pc = "call_gantt"
    /\ \E annotations \in {None, Some(<<"note">>)} :
         fig' = create_gantt(data, title, KEY_COLORS, layout_arg,
                             IF phraseends.some
                             THEN Some(PhraseendShapes(phraseends.val)) ELSE None,
                             annotations)
    /\ pc' = "done"
    /\ UNCHANGED <<data_in, data, task_column, sort_and_fill, globalkey, phraseends,
                   layout_arg, missing, transposed, title>>
    /\ UNCHANGED <<phraseVars, siteVars, metaVars, boolVars, readmeVars>>

----------------------------------------------------------------------------
(* Inputs of the chart model.                                              *)

Intervals == {[Start |-> 1, Finish |-> 5, Resource |-> "local"],
              [Start |-> 5, Finish |-> 9, Resource |-> "applied"]}

AxisValues(tc) ==
    CASE tc = "fifths" -> (0 - MaxNeg)..MaxPos
      [] tc = "semitones" -> 0..MaxPos
      [] OTHER -> Numerals

Records(tc) ==
    {[Start |-> iv.Start, Finish |-> iv.Finish, Resource |-> iv.Resource, Task |-> v]
        : iv \in Intervals, v \in AxisValues(tc)}

PhraseendArgs == {None, Some(<<2, 5>>)}

LayoutArgs ==
    {None,
     Some(EmptyDict),
     Some([xaxis |-> [title |-> "Measures"]]),
     Some([xaxis |-> [type |-> NoneStr, title |-> "Measures"]]),
     Some([yaxis |-> [title |-> "Keys"]])}

IdlePlan ==
    /\ pc = "idle" /\ data_in = <<>> /\ data = <<>> /\ task_column = "Task"
    /\ sort_and_fill = FALSE /\ globalkey = NoneStr /\ phraseends = None
    /\ layout_arg = None /\ missing = {} /\ transposed = <<>> /\ title = ""
    /\ fig = NoFig

InitPlan ==
    /\ missing = {} /\ transposed = <<>> /\ fig = NoFig
    /\ phraseends \in PhraseendArgs
    /\ \/ /\ pc = "start"
          /\ task_column \in NumericAxes \cup {"numeral"}
          /\ data_in \in SeqsUpTo(Records(task_column), MaxRecs)
          /\ sort_and_fill \in BOOLEAN
          /\ globalkey \in GlobalKeys \cup {NoneStr}
          /\ layout_arg = None
          /\ title = "Modulation plan"
       \/ /\ pc = "call_gantt"
          /\ task_column = "Task"
          /\ data_in \in [1..1 -> Records("numeral")]
          /\ sort_and_fill = FALSE
          /\ globalkey = NoneStr
          /\ layout_arg \in LayoutArgs
          /\ title = "Gantt chart"
    /\ data = data_in

----------------------------------------------------------------------------
(* get_phraseends                                                          *)

MaxAtRows == 2      \* rows of an annotation table

\* Fractions and floats are pairs <<numerator, denominator>> in lowest terms.
RECURSIVE GCD(_, _)
GCD(a, b) == IF b = 0 THEN a ELSE GCD(b, a % b)

Reduce(n, d) == <<n \div GCD(n, d), d \div GCD(n, d)>>

\* at.mn + (at.mn_onset.astype(float) / at.timesig.map(frac).astype(float))
MnFraction(row) ==
    Reduce(row.mn * (row.mn_onset[2] * row.timesig[1])
                + row.mn_onset[1] * row.timesig[2],
           row.mn_onset[2] * row.timesig[1])

\* The tokens without the closing-and-opening brace.
PhraseendTokensNoBoth == {"\\\\", "}"}

\* [r"\\", "}", "}{"]
PhraseendTokens == {"\\\\", "}", "}{"}

\* at.insert(at.columns.get_loc('mn')+1, 'mn_fraction', mn_fraction)
InsertMnFraction(df) ==
    LET loc == CHOOSE i \in DOMAIN df.columns : df.columns[i] = "mn"
    IN  [columns |-> SubSeq(df.columns, 1, loc) \o <<"mn_fraction">>
                        \o SubSeq(df.columns, loc + 1, Len(df.columns)),
         rows |-> [i \in DOMAIN df.rows |->
                     [c \in (DOMAIN df.rows[i]) \cup {"mn_fraction"} |->
                         IF c = "mn_fraction" THEN MnFraction(df.rows[i])
                         ELSE df.rows[i][c]]]]

\* at.loc[at.phraseend.isin([...]), column].to_list()
RECURSIVE LocToList(_, _)
LocToList(rows, col) ==
    IF rows = <<>> THEN <<>>
    ELSE (IF Head(rows)["phraseend"] \in PhraseendTokens
          THEN <<Head(rows)[col]>> ELSE <<>>) \o LocToList(Tail(rows), col)

\* Lines 276-282.
get_phraseends ==
    /\ ph_pc = "start"
    /\ at' = IF column = "mn_fraction" /\ "mn_fraction" \notin Range(at.columns)
             THEN InsertMnFraction(at) ELSE at
    /\ ph_result' = LocToList(at'.rows, column)
    /\ ph_pc' = "done"
    /\ UNCHANGED column
    /\ UNCHANGED <<planVars, siteVars, metaVars, boolVars, readmeVars>>

\* Inputs: annotation tables without position column, with a stored
\* mn_fraction column, and with a quarterbeats column.
PhraseendValues == {"\\\\", "}", "}{", "{", "nan"}

BaseRows ==
    {[mn |-> m, mn_onset |-> o, timesig |-> t, phraseend |-> p]
        : m \in {1, 2}, o \in {<<0, 1>>, <<1, 2>>}, t \in {<<3, 4>>, <<4, 4>>},
          p \in PhraseendValues}

StoredRows(col) ==
    {[c \in {"mn", "mn_onset", "timesig", "phraseend", col} |->
        CASE c = "mn" -> 1 [] c = "mn_onset" -> <<0, 1>> [] c = "timesig" -> <<4, 4>>
          [] c = "phraseend" -> p [] OTHER -> v]
        : p \in PhraseendValues, v \in {<<1, 1>>, <<9, 8>>}}

BaseColumns == <<"mn", "mn_onset", "timesig", "phraseend">>

IdlePhrase ==
    /\ ph_pc = "idle" /\ at = [columns |-> <<>>, rows |-> <<>>] /\ column = ""
    /\ ph_result = <<>>

InitPhrase ==
    /\ ph_pc = "start"
    /\ ph_result = <<>>
    /\ \/ /\ column = "mn_fraction"
          /\ \E rows \in SeqsUpTo(BaseRows, MaxAtRows) :
               at = [columns |-> BaseColumns, rows |-> rows]
       \/ /\ column = "mn_fraction"
          /\ \E rows \in SeqsUpTo(StoredRows("mn_fraction"), MaxAtRows) :
               at = [columns |-> <<"mn", "mn_fraction">> \o Tail(BaseColumns),
                     rows |-> rows]
       \/ /\ column = "quarterbeats"
          /\ \E rows \in SeqsUpTo(StoredRows("quarterbeats"), MaxAtRows) :
               at = [columns |-> BaseColumns \o <<"quarterbeats">>, rows |-> rows]
----------------------------------------------------------------------------
(* main of update_pages.py                                                 *)

MaxScores == 2      \* parsed scores of a run

INDEX_FNAME == "index.md"
GANTT_FNAME == "gantt.md"
STATS_FNAME == "stats.md"
JEKYLL_CFG_FNAME == "_config.yml"
STYLE_FNAME == "assets/css/style.scss"

\* A main that lists the gantt directory before it writes the charts.
MainStepsListFirst ==
    <<"write_gantt_file", "write_gantt_charts", "write_index", "write_cfg",
      "write_style", "write_stats_file", "done">>

\* The statements of main, in order (lines 285-291).
MainSteps ==
    <<"write_gantt_charts", "write_index", "write_cfg", "write_style",
      "write_gantt_file", "write_stats_file", "done">>

NextStep(step) ==
    MainSteps[(CHOOSE i \in DOMAIN MainSteps : MainSteps[i] = step) + 1]

\* The names a gantt directory of the model can hold, in the order of Python
\* strings.
FileOrder == <<"a.html", "b.html", "c.html", "old.html">>
FileRank(f) == CHOOSE i \in DOMAIN FileOrder : FileOrder[i] = f

\* sorted(os.listdir(gantt_path))
RECURSIVE SortedNames(_)
SortedNames(S) ==
    IF S = {} THEN <<>>
    ELSE LET f == CHOOSE x \in S : \A y \in S : FileRank(x) <= FileRank(y)
         IN  <<f>> \o SortedNames(S \ {f})

\* One entry of gantt.md (line 347).
Iframe(f) ==
    "<iframe id=\"igraph\" scrolling=\"no\" style=\"border:none;\" seamless=\"seamless\" src=\"gantt/"
        \o f \o "\" height=\"600\" width=\"100%\"></iframe>"

\* One pass of the loop of write_gantt_charts (lines 309-326): the chart of
\* the next score is built and stored as <fname>.html; a table without rows
\* makes create_modulation_plan raise, which ends the run.
PlotChart ==
    /\ site_pc = "write_gantt_charts"
    /\ score_i <= Len(scores)
    /\ IF scores[score_i].empty
       THEN /\ site_pc' = "error"
            /\ UNCHANGED <<score_i, gantt_dir>>
       ELSE /\ gantt_dir' = gantt_dir \cup {scores[score_i].fname \o ".html"}
            /\ score_i' = score_i + 1
            /\ UNCHANGED site_pc
    /\ UNCHANGED <<scores, out_files, gantt_md>>
    /\ UNCHANGED <<planVars, phraseVars, metaVars, boolVars, readmeVars>>

\* write_gantt_charts returns when the loop is over.
ChartsDone ==
    /\ site_pc = "write_gantt_charts"
    /\ score_i > Len(scores)
    /\ site_pc' = NextStep(site_pc)
    /\ UNCHANGED <<scores, score_i, gantt_dir, out_files, gantt_md>>
    /\ UNCHANGED <<planVars, phraseVars, metaVars, boolVars, readmeVars>>

\* write_to_file(args, filename, content_str) for the three fixed files
\* (lines 287-289, 329-336).
write_to_file(step, filename) ==
    /\ site_pc = step
    /\ out_files' = out_files \cup {filename}
    /\ site_pc' = NextStep(site_pc)
    /\ UNCHANGED <<scores, score_i, gantt_dir, gantt_md>>
    /\ UNCHANGED <<planVars, phraseVars, metaVars, boolVars, readmeVars>>

WriteIndex == write_to_file("write_index", INDEX_FNAME)
WriteCfg == write_to_file("write_cfg", JEKYLL_CFG_FNAME)
WriteStyle == write_to_file("write_style", STYLE_FNAME)

\* Lines 339-350.
write_gantt_file ==
    /\ site_pc = "write_gantt_file"
    /\ LET fnames == SortedNames(gantt_dir)
       IN  gantt_md' = Some([k \in DOMAIN fnames |-> Iframe(fnames[k])])
    /\ out_files' = out_files \cup {GANTT_FNAME}
    /\ site_pc' = NextStep(site_pc)
    /\ UNCHANGED <<scores, score_i, gantt_dir>>
    /\ UNCHANGED <<planVars, phraseVars, metaVars, boolVars, readmeVars>>

\* Lines 353-372: the statistics provider answers, or raises.
write_stats_file ==
    /\ site_pc = "write_stats_file"
    /\ \/ /\ out_files' = out_files \cup {STATS_FNAME}
          /\ site_pc' = NextStep(site_pc)
       \/ /\ site_pc' = "error"
          /\ UNCHANGED out_files
    /\ UNCHANGED <<scores, score_i, gantt_dir, gantt_md>>
    /\ UNCHANGED <<planVars, phraseVars, metaVars, boolVars, readmeVars>>

Scores == {[fname |-> f, empty |-> e] : f \in {"a", "b", "c"}, e \in BOOLEAN}

IdleSite ==
    /\ site_pc = "idle" /\ scores = <<>> /\ score_i = 0 /\ gantt_dir = {}
    /\ out_files = {} /\ gantt_md = None

InitSite ==
    /\ site_pc = MainSteps[1]
    /\ scores \in SeqsUpTo(Scores, MaxScores)
    /\ score_i = 1
    /\ gantt_dir \in SUBSET {"b.html", "old.html"}
    /\ out_files = {}
    /\ gantt_md \in {None, Some(<<Iframe("old.html")>>)}
----------------------------------------------------------------------------
(* concat_metadata.py: tables and paths.                                   *)
(* A string is a sequence of tokens (words, "/", "#", " ", "\n"), so that  *)
(* joining, prefix and substring tests are computed.  A table is a set of  *)
(* column names and a sequence of rows, each a function from the columns   *)
(* to cells.                                                               *)

MaxRows == 2        \* rows of a metadata.tsv

\* A missing value (an empty cell read with dtype='string', or a cell of a
\* column the row's file does not have).
NA == <<>>

\* os.path.join(a, b) on POSIX.
OsPathJoinNoSep(a, b) == a \o b

OsPathJoin(a, b) ==
    IF b # <<>> /\ Head(b) = "/" THEN b
    ELSE IF a = <<>> \/ a[Len(a)] = "/" THEN a \o b
    ELSE a \o <<"/">> \o b

\* The child directories of the root, in the order of Python strings.
FolderOrder == <<"corpA", "corpB">>

NoFile == [columns |-> {}, rows |-> <<>>, isfile |-> FALSE]

\* Boolean columns.
BOOLEAN_COLUMNS == {"has_drumset"}

\* Python values.  A str is the sequence of its characters; a value of another
\* type is its type tag followed by the characters of its repr.
TypeTags == {"<bool>", "<Int64>", "<int>", "<float>", "<NoneType>"}
IsStr(v) == v = <<>> \/ Head(v) \notin TypeTags
Bool(b) == <<"<bool>", IF b THEN "True" ELSE "False">>
Int64(n) == <<"<Int64>", IF n = 1 THEN "1" ELSE "0">>
PyNone == <<"<NoneType>">>
PyInt(digits) == <<"<int>">> \o digits
PyFloat(digits) == <<"<float>">> \o digits

\* str.lower, character by character.
LowerChar(c) ==
    CASE c = "T" -> "t" [] c = "R" -> "r" [] c = "U" -> "u" [] c = "E" -> "e"
      [] c = "F" -> "f" [] c = "A" -> "a" [] c = "L" -> "l" [] c = "S" -> "s"
      [] c = "X" -> "x" [] OTHER -> c
Lower(str) == [i \in DOMAIN str |-> LowerChar(str[i])]

\* The literals of lines 41-42.
TrueWords == {<<"t">>, <<"t", "r", "u", "e">>}
FalseWords == {<<"f">>, <<"f", "a", "l", "s", "e">>}

\* int(): the grammar of integer literals in a str.
Digits == {"0", "1", "2", "3", "4", "5", "6", "7", "8", "9"}
DigitVal(c) ==
    CASE c = "0" -> 0 [] c = "1" -> 1 [] c = "2" -> 2 [] c = "3" -> 3 [] c = "4" -> 4
      [] c = "5" -> 5 [] c = "6" -> 6 [] c = "7" -> 7 [] c = "8" -> 8 [] c = "9" -> 9

\* str.strip() of blanks, as int() does before it parses.
RECURSIVE Strip(_)
Strip(str) ==
    IF str = <<>> THEN <<>>
    ELSE IF Head(str) = " " THEN Strip(Tail(str))
    ELSE IF str[Len(str)] = " " THEN Strip(SubSeq(str, 1, Len(str) - 1))
    ELSE str

Unsigned(str) ==
    IF str # <<>> /\ Head(str) \in {"+", "-"} THEN Tail(str) ELSE str

\* Digits, with single underscores allowed between two digits.
IsDigitString(str) ==
    /\ str # <<>>
    /\ \A i \in DOMAIN str :
         \/ str[i] \in Digits
         \/ /\ str[i] = "_" /\ i > 1 /\ i < Len(str)
            /\ str[i - 1] \in Digits /\ str[i + 1] \in Digits

RECURSIVE DecimalValue(_)
DecimalValue(str) ==
    IF str = <<>> THEN 0
    ELSE LET front == SubSeq(str, 1, Len(str) - 1)
             last == str[Len(str)]
         IN  IF last = "_" THEN DecimalValue(front)
             ELSE 10 * DecimalValue(front) + DigitVal(last)

SignedValue(str) ==
    IF str # <<>> /\ Head(str) = "-" THEN 0 - DecimalValue(Tail(str))
    ELSE DecimalValue(Unsigned(str))

\* The part of a float's repr before the decimal point: int() truncates.
RECURSIVE IntegerPart(_)
IntegerPart(str) ==
    IF str = <<>> \/ Head(str) = "." THEN <<>>
    ELSE <<Head(str)>> \o IntegerPart(Tail(str))

\* int(s): the integer, or the exception raised.
int(v) ==
    IF IsStr(v)
    THEN IF IsDigitString(Unsigned(Strip(v)))
         THEN [raised |-> NoneStr, value |-> SignedValue(Strip(v))]
         ELSE [raised |-> "ValueError", value |-> 0]
    ELSE IF Head(v) = "<bool>"
    THEN [raised |-> NoneStr, value |-> IF v = Bool(TRUE) THEN 1 ELSE 0]
    ELSE IF Head(v) = "<int>"
    THEN [raised |-> NoneStr, value |-> SignedValue(Tail(v))]
    ELSE IF Head(v) = "<float>"
    THEN IF Tail(v) = <<"nan">> THEN [raised |-> "ValueError", value |-> 0]
         ELSE IF Unsigned(Tail(v)) = <<"inf">>
         THEN [raised |-> "OverflowError", value |-> 0]
         ELSE [raised |-> NoneStr, value |-> SignedValue(IntegerPart(Tail(v)))]
    ELSE [raised |-> "TypeError", value |-> 0]

IsInt(v) == int(v).raised = NoneStr
IntOf(v) == int(v).value

\* An except clause that catches ValueError only.
CaughtValueErrorOnly(exc) == exc = "ValueError"

\* except Exception (line 45): the classes derived from Exception.
Caught(exc) ==
    exc \in {"ValueError", "TypeError", "OverflowError"}

\* int2bool(s), lines 40-46: the value returned, or the exception that leaves
\* the function.
int2bool(v) ==
    IF IsStr(v) /\ Lower(v) \in TrueWords \cup FalseWords
    THEN [raised |-> NoneStr, value |-> Bool(Lower(v) \in TrueWords)]
    ELSE IF IsInt(v) THEN [raised |-> NoneStr, value |-> Bool(IntOf(v) # 0)]
    ELSE IF Caught(int(v).raised) THEN [raised |-> NoneStr, value |-> v]
    ELSE [raised |-> int(v).raised, value |-> <<>>]

\* pd.read_csv(..., dtype='string', converters=converters): the cells of the
\* boolean columns go through int2bool.
read_csv(file) ==
    [file EXCEPT !.rows =
        [i \in DOMAIN file.rows |->
            [c \in file.columns |->
                IF c \in BOOLEAN_COLUMNS THEN int2bool(file.rows[i][c]).value
                ELSE file.rows[i][c]]]]

IsBool(cell) == cell \in {Bool(TRUE), Bool(FALSE)}

\* convert_booleans raises TypeError (lines 151-156) when a boolean column
\* that is not all missing holds a value that is neither a bool nor missing.
ConvertRaises(df) ==
    \E bc \in BOOLEAN_COLUMNS \cap df.columns :
        /\ \E i \in DOMAIN df.rows : df.rows[i].cells[bc] # NA
        /\ \E i \in DOMAIN df.rows :
             df.rows[i].cells[bc] # NA /\ ~IsBool(df.rows[i].cells[bc])

\* Lines 127-158: booleans become the integers 1 and 0.
convert_booleans(df) ==
    [df EXCEPT !.rows =
        [i \in DOMAIN df.rows |->
            [df.rows[i] EXCEPT !.cells =
                [c \in df.columns |->
                    IF c \in BOOLEAN_COLUMNS /\ IsBool(df.rows[i].cells[c])
                    THEN Int64(IF df.rows[i].cells[c] = Bool(TRUE) THEN 1 ELSE 0)
                    ELSE df.rows[i].cells[c]]]]]

\* The keys in the reverse of the sorted order.
KeysReversed(dirs) ==
    LET n == Len(FolderOrder)
        reversed == [i \in 1..n |-> FolderOrder[n + 1 - i]]
    IN  SelectSeq(reversed, LAMBDA subdir : subdir \in DOMAIN dirs /\ dirs[subdir].isfile)

\* for subdir in sorted(folders): ... if os.path.isfile(potential)
\* (lines 49-55): the keys, in sorted order.
Keys(dirs) ==
    SelectSeq(FolderOrder, LAMBDA subdir : subdir \in DOMAIN dirs /\ dirs[subdir].isfile)

\* pd.DataFrame(): no columns, no rows, and the default index, which has one
\* level without a name.
EmptyFrame == [columns |-> {}, rows |-> <<>>, index |-> <<NoneStr>>]

\* pd.concat(dfs, keys=keys): the rows of the tables in the order of keys, each
\* with the two index levels (key, row number), neither of which has a name;
\* the columns are the union, and a cell of a column the table does not have
\* is missing.
RECURSIVE ConcatRows(_, _, _)
ConcatRows(dirs, keys, columns) ==
    IF keys = <<>> THEN <<>>
    ELSE LET df == read_csv(dirs[Head(keys)])
         IN  [i \in DOMAIN df.rows |->
                [corpus |-> Head(keys), level1 |-> i - 1,
                 cells |-> [c \in columns |->
                              IF c \in df.columns THEN df.rows[i][c] ELSE NA]]]
             \o ConcatRows(dirs, Tail(keys), columns)

pd_concat(dirs, keys) ==
    LET columns == UNION {dirs[keys[k]].columns : k \in DOMAIN keys}
    IN  [columns |-> columns, rows |-> ConcatRows(dirs, keys, columns),
         index |-> <<NoneStr, NoneStr>>]

\* The fallback names looked up in the wrong order.
RelPathColsLegacyFirst == <<"rel_paths", "subdirectory">>

\* ('subdirectory', 'rel_paths') and ('fname', 'fnames')
RelPathCols == <<"subdirectory", "rel_paths">>
FnameCols == <<"fname", "fnames">>

\* next(col for col in names if col in columns); "StopIteration" if none.
FirstPresent(names, columns) ==
    LET present == SelectSeq(names, LAMBDA col : col \in columns)
    IN  IF present = <<>> THEN "StopIteration" ELSE Head(present)

RelPathError ==
    "ValueError: Metadata is expected to come with a column called 'subdirectory' or (previously) 'rel_paths'."
FnameError ==
    "ValueError: Metadata is expected to come with a column called 'fname' or (previously) 'fnames'."

\* Lines 70-71 and 73-74: the column col rewritten to os.path.join(corpus, value).
RewritePaths(df, col) ==
    [df EXCEPT !.rows =
        [i \in DOMAIN df.rows |->
            [df.rows[i] EXCEPT !.cells[col] =
                OsPathJoin(<<df.rows[i].corpus>>, df.rows[i].cells[col])]]]

\* os.path.join raises TypeError on a missing value.
HasMissing(df, col) == \E i \in DOMAIN df.rows : df.rows[i].cells[col] = NA

\* concatenated.droplevel(1); index.rename('corpus')
DropLevel(df) ==
    [df EXCEPT !.rows =
        [i \in DOMAIN df.rows |->
            [corpus |-> df.rows[i].corpus, cells |-> df.rows[i].cells]],
               !.index = [RemoveAt(df.index, 2) EXCEPT ![1] = "corpus"]]

\* concat_metadata(path), lines 48-77: the table returned, or the error raised.
\* (The AssertionError branch of lines 62-65 needs tables whose indexes have
\* different numbers of levels, which read_csv does not produce.)
concat_metadata_result(dirs) ==
    LET keys == Keys(dirs)
        concat == pd_concat(dirs, keys)
        rel_path_col == FirstPresent(RelPathCols, concat.columns)
        first == RewritePaths(concat, rel_path_col)
    IN  IF Len(keys) = 0 THEN [raised |-> NoneStr, value |-> EmptyFrame]
        ELSE IF rel_path_col = "StopIteration"
        THEN [raised |-> RelPathError, value |-> EmptyFrame]
        ELSE IF HasMissing(concat, rel_path_col)
        THEN [raised |-> "TypeError", value |-> EmptyFrame]
        ELSE IF "rel_path" \in concat.columns
        THEN IF HasMissing(first, "rel_path")
             THEN [raised |-> "TypeError", value |-> EmptyFrame]
             ELSE [raised |-> NoneStr,
                   value |-> DropLevel(RewritePaths(first, "rel_path"))]
        ELSE [raised |-> NoneStr, value |-> DropLevel(first)]

----------------------------------------------------------------------------
(* concat_metadata.py: the Markdown overview and README.md.                *)

RECURSIVE Flatten(_)
Flatten(seqs) == IF seqs = <<>> THEN <<>> ELSE Head(seqs) \o Flatten(Tail(seqs))

\* rename4markdown (lines 93-98): display name -> column, in display order.
MarkdownColumns == <<"file_name", "measures", "labels", "standard">>
Renamed(display, fname_col) ==
    CASE display = "file_name" -> fname_col
      [] display = "measures" -> "last_mn"
      [] display = "labels" -> "label_count"
      [] display = "standard" -> "harmony_version"

\* One line of a Markdown table.
TableLine(cells) ==
    <<"|">> \o Flatten([k \in DOMAIN cells |-> cells[k] \o <<"|">>]) \o <<"\n">>

\* str(df2md(df.fillna(''))) (lines 79-86, 103).
df2md(rows, fname_col) ==
    TableLine([k \in DOMAIN MarkdownColumns |-> <<MarkdownColumns[k]>>])
    \o TableLine([k \in DOMAIN MarkdownColumns |-> <<"---">>])
    \o Flatten([i \in DOMAIN rows |->
                  TableLine([k \in DOMAIN MarkdownColumns |->
                               rows[i].cells[Renamed(MarkdownColumns[k], fname_col)]])])

\* Lines 100-105: one heading and one table per corpus, in sorted order.
RECURSIVE OverviewGroups(_, _, _)
OverviewGroups(df, corpora, fname_col) ==
    IF corpora = <<>> THEN <<>>
    ELSE LET corpus_name == Head(corpora)
             group == SelectSeq(df.rows, LAMBDA r : r.corpus = corpus_name)
         IN  (IF group = <<>> THEN <<>>
              ELSE <<"\n", "\n", "#", "#", "#", " ", corpus_name, "\n", "\n">>
                     \o df2md(group, fname_col))
             \o OverviewGroups(df, Tail(corpora), fname_col)

\* metadata2markdown(concatenated), lines 88-105: the string, or the error.
metadata2markdown_result(df) ==
    LET fname_col == FirstPresent(FnameCols, df.columns)
    IN  IF fname_col = "StopIteration" THEN [raised |-> FnameError, value |-> <<>>]
        ELSE IF ~({"last_mn", "label_count", "harmony_version"} \subseteq df.columns)
        THEN [raised |-> "KeyError", value |-> <<>>]
        ELSE [raised |-> NoneStr,
              value |-> <<"#", "#", " ", "Overview">>
                          \o OverviewGroups(df, FolderOrder, fname_col)]

\* f.readlines(): the text (after the characters of `line`, already read) cut
\* after every newline; a last line without a newline is a line too.
ReadLines(text, line) ==
    LET all == line \o text
        ends == {i \in DOMAIN all : all[i] = "\n"}
                  \cup (IF all # <<>> /\ all[Len(all)] # "\n" THEN {Len(all)} ELSE {})
        EndOf(k) == CHOOSE e \in ends : Cardinality({d \in ends : d <= e}) = k
    IN  [k \in 1..Cardinality(ends) |->
            SubSeq(all, IF k = 1 THEN 1 ELSE EndOf(k - 1) + 1, EndOf(k))]

\* A test for the line that starts with '# Overview'.
ContainsOverviewAtStart(line) ==
    Len(line) >= 3 /\ SubSeq(line, 1, 3) = <<"#", " ", "Overview">>

\* '# Overview' in line
ContainsOverview(line) ==
    \E i \in 1..(Len(line) - 2) : SubSeq(line, i, i + 2) = <<"#", " ", "Overview">>

\* The loop of lines 118-123: the lines written before the break, or all the
\* lines and two newlines when the loop ends without a break.
RECURSIVE KeptText(_)
KeptText(lines) ==
    IF lines = <<>> THEN <<"\n", "\n">>
    ELSE IF ContainsOverview(Head(lines)) THEN <<>>
    ELSE Head(lines) \o KeptText(Tail(lines))

\* The content write_md leaves in the file (lines 109-125).
write_md_content(md, file) ==
    LET lines == IF file.some THEN ReadLines(file.val, <<>>) ELSE <<>>
    IN  KeptText(lines) \o md

----------------------------------------------------------------------------
(* main of concat_metadata.py                                              *)

TSV_PATH == "concatenated_metadata.tsv"
MD_PATH == "README.md"

\* A main that renders the overview before it writes the table.
MetaStepsMarkdownFirst ==
    <<"concat_metadata", "check_empty", "metadata2markdown", "write_tsv",
      "write_md", "done">>

\* The statements of main, in order (lines 167-176).
MetaSteps ==
    <<"concat_metadata", "check_empty", "write_tsv", "metadata2markdown",
      "write_md", "done">>

NextMetaStep(step) ==
    MetaSteps[(CHOOSE i \in DOMAIN MetaSteps : MetaSteps[i] = step) + 1]

\* A test that never finds the table empty.
IsEmptyNever(df) == FALSE

\* len(concatenated) == 0
IsEmpty(df) == Len(df.rows) = 0

\* Line 168.
CallConcatMetadata ==
    /\ md_pc = "concat_metadata"
    /\ LET r == concat_metadata_result(folders)
       IN  IF r.raised # NoneStr
           THEN /\ md_pc' = "error" /\ error' = r.raised
                /\ UNCHANGED concatenated
           ELSE /\ concatenated' = r.value
                /\ md_pc' = NextMetaStep(md_pc)
                /\ UNCHANGED error
    /\ UNCHANGED <<folders, tsv_file, readme, md_str, written>>
    /\ UNCHANGED <<planVars, phraseVars, siteVars, boolVars, readmeVars>>

\* Lines 169-171.
CheckEmpty ==
    /\ md_pc = "check_empty"
    /\ md_pc' = IF IsEmpty(concatenated) THEN "no_metadata" ELSE NextMetaStep(md_pc)
    /\ UNCHANGED <<folders, concatenated, tsv_file, readme, md_str, error, written>>
    /\ UNCHANGED <<planVars, phraseVars, siteVars, boolVars, readmeVars>>

\* write_tsv(concatenated, tsv_path), lines 161-164 and 172-173.
write_tsv ==
    /\ md_pc = "write_tsv"
    /\ IF ConvertRaises(concatenated)
       THEN /\ md_pc' = "error" /\ error' = "TypeError"
            /\ UNCHANGED <<tsv_file, written>>
       ELSE /\ tsv_file' = Some(convert_booleans(concatenated))
            /\ written' = written \cup {TSV_PATH}
            /\ md_pc' = NextMetaStep(md_pc)
            /\ UNCHANGED error
    /\ UNCHANGED <<folders, concatenated, readme, md_str>>
    /\ UNCHANGED <<planVars, phraseVars, siteVars, boolVars, readmeVars>>

\* Line 174.
CallMetadata2Markdown ==
    /\ md_pc = "metadata2markdown"
    /\ LET r == metadata2markdown_result(concatenated)
       IN  IF r.raised # NoneStr
           THEN /\ md_pc' = "error" /\ error' = r.raised
                /\ UNCHANGED md_str
           ELSE /\ md_str' = r.value
                /\ md_pc' = NextMetaStep(md_pc)
                /\ UNCHANGED error
    /\ UNCHANGED <<folders, concatenated, tsv_file, readme, written>>
    /\ UNCHANGED <<planVars, phraseVars, siteVars, boolVars, readmeVars>>

\* write_md(md_str, md_path), lines 109-125 and 175-176.
write_md ==
    /\ md_pc = "write_md"
    /\ readme' = Some(write_md_content(md_str, readme))
    /\ written' = written \cup {MD_PATH}
    /\ md_pc' = NextMetaStep(md_pc)
    /\ UNCHANGED <<folders, concatenated, tsv_file, md_str, error>>
    /\ UNCHANGED <<planVars, phraseVars, siteVars, boolVars, readmeVars>>

\* Inputs: the metadata.tsv files.  The cells of the path columns are relative
\* paths or missing; the other cells are fixed per row.
RelPaths == {<<".">>, <<"MS3">>}

StatColumns == {"last_mn", "label_count", "harmony_version"}

Schemas ==
    {{"subdirectory", "fname"} \cup StatColumns,
     {"subdirectory", "fname", "has_drumset"} \cup StatColumns,
     {"rel_paths", "rel_path", "fnames"} \cup StatColumns,
     {"subdirectory", "rel_paths", "fname"} \cup StatColumns,
     {"fname"} \cup StatColumns,
     {"subdirectory"} \cup StatColumns,
     {"subdirectory", "fname"}}

\* The file name of the row at position i: the rows of a file are not in the
\* order of their names.
FnameAt(i) == CASE i = 1 -> "f1" [] i = 2 -> "f0" [] OTHER -> "f2"

\* The rows a file with these columns can have at position i: the cells of the
\* first row vary, those of the later rows are fixed.
RowsOf(columns, i) ==
    {[c \in columns |->
        CASE c = "subdirectory" -> path
          [] c = "rel_paths" -> IF "subdirectory" \in columns THEN <<"old">> ELSE path
          [] c = "rel_path" -> legacy
          [] c = "has_drumset" -> drums
          [] c \in {"fname", "fnames"} -> <<FnameAt(i)>>
          [] OTHER -> <<"10">>]
        : path \in IF "has_drumset" \in columns \/ columns \cap {"subdirectory", "rel_paths"} = {}
                      \/ i > 1
                   THEN {<<"MS3">>} ELSE RelPaths \cup {NA},
          legacy \in IF "rel_path" \in columns
                     THEN (IF i > 1 THEN {<<"MS3">>} ELSE {<<"MS3">>, NA})
                     ELSE {NA},
          drums \in IF "has_drumset" \in columns
                    THEN (IF i > 1 THEN {<<"1">>} ELSE {<<"1">>, <<"F">>, <<"x">>})
                    ELSE {NA}}

Files ==
    {NoFile} \cup
    UNION {UNION {{[columns |-> columns, rows |-> rows, isfile |-> TRUE]
                     : rows \in {r \in [1..n -> UNION {RowsOf(columns, i) : i \in 1..n}]
                                    : \A i \in 1..n : r[i] \in RowsOf(columns, i)}}
                  : n \in 0..MaxRows}
           : columns \in Schemas}

Readmes ==
    {None,
     Some(<<>>),
     Some(<<"#", " ", "Title", "\n", "text", "\n">>),
     Some(<<"#", " ", "Title", "\n", "text">>),
     Some(<<"#", " ", "Title", "\n", "\n", "#", "#", " ", "Overview", "\n", "old", "\n">>),
     Some(<<"See", " ", "#", " ", "Overview", " ", "below", "\n", "text", "\n">>),
     Some(<<"#", " ", "Title", "\n", "See", " ", "#", " ", "Overview", " ", "below", "\n",
            "#", "#", " ", "Overview", "\n", "old", "\n">>)}

\* Inputs of int2bool: every str of up to MaxStrLen characters, the four
\* words in every spelling of upper and lower case, some longer strs, and
\* values of other types.
MaxStrLen == 3

Chars == {"t", "T", "f", "0", "1", "-", "+", " ", "_", "."}

UpperChar(c) ==
    CASE c = "t" -> "T" [] c = "r" -> "R" [] c = "u" -> "U" [] c = "e" -> "E"
      [] c = "f" -> "F" [] c = "a" -> "A" [] c = "l" -> "L" [] c = "s" -> "S"
      [] OTHER -> c

RECURSIVE Spellings(_)
Spellings(word) ==
    IF word = <<>> THEN {<<>>}
    ELSE {<<c>> \o rest : c \in {Head(word), UpperChar(Head(word))},
                          rest \in Spellings(Tail(word))}

Values ==
    SeqsUpTo(Chars, MaxStrLen)
    \cup Spellings(<<"t", "r", "u", "e">>) \cup Spellings(<<"f", "a", "l", "s", "e">>)
    \cup {<<"t", "r", "u">>, <<"t", "r", "u", "e", " ">>, <<"y", "e", "s">>,
          <<" ", "-", "1", "0", " ">>, <<"1", "_", "0", "0">>, <<"1", "_", "_", "0">>,
          <<"0", "0", "0", "0">>, <<"1", ".", "0", "0">>, <<"n", "a", "n">>}
    \cup {Bool(TRUE), Bool(FALSE), PyNone,
          PyInt(<<"0">>), PyInt(<<"7">>), PyInt(<<"-", "1">>),
          PyFloat(<<"0", ".", "5">>), PyFloat(<<"2", ".", "0">>),
          PyFloat(<<"-", "1", ".", "5">>), PyFloat(<<"0", ".", "0">>),
          PyFloat(<<"nan">>), PyFloat(<<"inf">>), PyFloat(<<"-", "inf">>)}

NoOutcome == [raised |-> NoneStr, value |-> <<>>]

\* The call int2bool(s).
CallInt2Bool ==
    /\ b_pc = "call"
    /\ b_out' = int2bool(b_arg)
    /\ b_pc' = IF b_out'.raised = NoneStr THEN "returned" ELSE "raised"
    /\ UNCHANGED b_arg
    /\ UNCHANGED <<planVars, phraseVars, siteVars, metaVars, readmeVars>>

IdleBool == b_pc = "idle" /\ b_arg = <<>> /\ b_out = NoOutcome

InitBool == b_pc = "call" /\ b_arg \in Values /\ b_out = NoOutcome

\* write_md called repeatedly with the same arguments, as by repeated runs of
\* main over unchanged metadata.
MaxCalls == 2

\* main gets as far as write_md (lines 168-176).
ReachesWriteMd(dirs) ==
    LET r == concat_metadata_result(dirs)
    IN  /\ r.raised = NoneStr
        /\ ~IsEmpty(r.value)
        /\ ~ConvertRaises(r.value)
        /\ metadata2markdown_result(r.value).raised = NoneStr

\* The strings main passes to write_md as md_str.
Overviews ==
    {metadata2markdown_result(concat_metadata_result(dirs).value).value
        : dirs \in {d \in [Range(FolderOrder) -> Files] : ReachesWriteMd(d)}}

\* One call write_md(md_str, md_path), lines 109-125.
CallWriteMd ==
    /\ wm_calls < MaxCalls
    /\ wm_file' = Some(write_md_content(wm_md, wm_file))
    /\ wm_once' = IF wm_calls = 0 THEN wm_file' ELSE wm_once
    /\ wm_calls' = wm_calls + 1
    /\ UNCHANGED wm_md
    /\ UNCHANGED <<planVars, phraseVars, siteVars, metaVars, boolVars>>

IdleReadme == wm_calls = 0 /\ wm_md = <<>> /\ wm_file = None /\ wm_once = None

InitReadme ==
    wm_calls = 0 /\ wm_md \in Overviews /\ wm_file \in Readmes /\ wm_once = None

IdleMeta ==
    /\ md_pc = "idle" /\ folders = EmptyDict /\ concatenated = EmptyFrame
    /\ tsv_file = None /\ readme = None /\ md_str = <<>> /\ error = NoneStr
    /\ written = {}

----------------------------------------------------------------------------
(* Specifications.                                                         *)

NextPlan == SortAndFill \/ Transpose \/ Render \/ CallCreateGantt
PlanInit == InitPlan /\ IdlePhrase /\ IdleSite /\ IdleMeta /\ IdleBool /\ IdleReadme
SpecPlan == PlanInit /\ [][NextPlan]_vars

----------------------------------------------------------------------------
(* Claims about create_modulation_plan and create_gantt.                   *)

Count(seq, r) == Cardinality({i \in DOMAIN seq : seq[i] = r})

AfterNumericFill == pc = "filled" /\ sort_and_fill /\ task_column \in NumericAxes

\* The integers from min(0, observed minimum) to the observed maximum that no
\* input record has as its axis value.
AbsentFromInput ==
    LET observed == {data_in[i].Task : i \in DOMAIN data_in}
        lo == IF \E v \in observed : v < 0 THEN Min(observed) ELSE 0
    IN  {v \in lo..Max(observed) : v \notin observed}

\* C1: after gap-filling a numeric axis the table holds every input record as
\* often as the input did, plus exactly one placeholder (Start 0, Finish 0,
\* Resource 'local') per integer of the range min(0, minimum)..maximum that
\* the input lacks, so that the axis values cover that range without a gap.
C1_GapFill ==
    AfterNumericFill =>
        LET observed == {data_in[i].Task : i \in DOMAIN data_in}
            lo == IF \E v \in observed : v < 0 THEN Min(observed) ELSE 0
        IN  /\ Len(data) = Len(data_in) + Cardinality(AbsentFromInput)
            /\ \A v \in AbsentFromInput :
                 Count(data, [Start |-> 0, Finish |-> 0, Resource |-> "local",
                              Task |-> v]) = 1
            /\ \A i \in DOMAIN data_in : Count(data, data_in[i]) = Count(data_in, data_in[i])
            /\ {data[i].Task : i \in DOMAIN data} = lo..Max(observed)

\* The example of the specification: inputs at -2 and 3 get placeholders at
\* -1, 0, 1 and 2.
C1_Witness ==
    /\ AfterNumericFill
    /\ {data_in[i].Task : i \in DOMAIN data_in} = {-2, 3}
    /\ missing = {-1, 0, 1, 2}
    /\ Len(data) = 6

\* C2: after gap-filling a numeric axis, 0 is among the axis values, whatever
\* the signs of the observed values.
C2_ZeroPresent ==
    AfterNumericFill => \E i \in DOMAIN data : data[i].Task = 0

NameOf(tc, v) == IF tc = "fifths" THEN fifths2name(v) ELSE midi2name(v)

\* C3: the transposition step adds one and the same offset to the axis value of
\* every record (placeholders included) and then converts it to a name; it
\* keeps the number of records, their order and their Start, Finish and
\* Resource.
C3_Transposition ==
    [][(pc = "filled" /\ pc' = "transposed" /\ globalkey # NoneStr
            /\ task_column \in NumericAxes)
        => /\ Len(data') = Len(data)
           /\ \A i \in DOMAIN data :
                /\ data'[i].Start = data[i].Start
                /\ data'[i].Finish = data[i].Finish
                /\ data'[i].Resource = data[i].Resource
           /\ \E offset \in -12..12 :
                \A i \in DOMAIN data :
                    /\ transposed'[i] = data[i].Task + offset
                    /\ data'[i].Task = NameOf(task_column, transposed'[i])]_vars

\* A table with placeholders has been transposed to G.
C3_Witness ==
    /\ pc = "transposed" /\ globalkey = "G" /\ task_column = "fifths"
    /\ sort_and_fill /\ missing # {}
    /\ transposed = <<4, 3, 2, 1>>
    /\ Column(data) = <<"E", "A", "D", "G">>

\* C8: every figure create_gantt returns has the x-axis type None.
C8_NoDateAxis ==
    pc = "done" => fig.layout["xaxis"]["type"] = NoneStr

NextPhrase == get_phraseends
PhraseInit == InitPhrase /\ IdlePlan /\ IdleSite /\ IdleMeta /\ IdleBool /\ IdleReadme
SpecPhrase == PhraseInit /\ [][NextPhrase]_vars

----------------------------------------------------------------------------
(* Claims about get_phraseends.                                            *)

\* The position of a row of the table as passed: the stored value of the
\* position column, or mn + mn_onset / timesig when that column is
\* 'mn_fraction' and the table does not have it.
IsPositionOf(v, df, i) ==
    IF column \in Range(df.columns) THEN v = df.rows[i][column]
    ELSE LET r == df.rows[i]
         IN  /\ v[2] > 0
             /\ v[1] * r.mn_onset[2] * r.timesig[1]
                  = v[2] * (r.mn * r.mn_onset[2] * r.timesig[1]
                              + r.mn_onset[1] * r.timesig[2])

\* C4: get_phraseends returns the positions of the rows whose phraseend is
\* one of the three tokens, one per such row and in table order, and nothing
\* for the other rows; a missing 'mn_fraction' column is computed for every row
\* as mn + mn_onset / timesig, a present one is used as it is.
C4_Phraseends ==
    [][(ph_pc = "start" /\ ph_pc' = "done")
        => LET marked == {i \in DOMAIN at.rows :
                            at.rows[i]["phraseend"] \in {"\\\\", "}", "}{"}}
           IN  /\ Len(ph_result') = Cardinality(marked)
               /\ \E f \in [DOMAIN ph_result' -> marked] :
                    /\ \A j, k \in DOMAIN f : j < k => f[j] < f[k]
                    /\ \A k \in DOMAIN f : IsPositionOf(ph_result'[k], at, f[k])
               /\ Len(at'.rows) = Len(at.rows)
               /\ \A i \in DOMAIN at.rows :
                    /\ \A c \in DOMAIN at.rows[i] : at'.rows[i][c] = at.rows[i][c]
                    /\ column = "mn_fraction"
                         => IsPositionOf(at'.rows[i]["mn_fraction"], at, i)
               /\ column # "mn_fraction" => at' = at]_vars

\* An unmarked row followed by a marked one; the position is computed
\* (measure 1 at onset 1/2 in 3/4 is 1 + 2/3 = 5/3).
C4_Witness ==
    /\ ph_pc = "done" /\ column = "mn_fraction"
    /\ Len(at.rows) = 2
    /\ at.rows[1]["phraseend"] = "{"
    /\ at.rows[2]["phraseend"] = "}{"
    /\ ph_result = << <<5, 3>> >>
    /\ at.columns = <<"mn", "mn_fraction", "mn_onset", "timesig", "phraseend">>

NextSite ==
    \/ PlotChart \/ ChartsDone \/ WriteIndex \/ WriteCfg \/ WriteStyle
    \/ write_gantt_file \/ write_stats_file
SiteInit == InitSite /\ IdlePlan /\ IdlePhrase /\ IdleMeta /\ IdleBool /\ IdleReadme
SpecSite == SiteInit /\ [][NextSite]_vars

----------------------------------------------------------------------------
(* Claims about main of update_pages.py.                                   *)

\* C9: when main completes, gantt.md holds exactly one iframe entry for every
\* file of the gantt directory, in sorted order of the file names, the charts
\* written by this run included.
C9_GanttListing ==
    site_pc = "done" =>
        /\ gantt_md.some
        /\ Len(gantt_md.val) = Cardinality(gantt_dir)
        /\ \E order \in [DOMAIN gantt_md.val -> gantt_dir] :
             /\ \A j, k \in DOMAIN order : j < k => FileRank(order[j]) < FileRank(order[k])
             /\ \A k \in DOMAIN order : gantt_md.val[k] = Iframe(order[k])
        /\ \A i \in DOMAIN scores :
             \E k \in DOMAIN gantt_md.val :
                gantt_md.val[k] = Iframe(scores[i].fname \o ".html")

\* A run that wrote two charts into a directory that held an older file.
C9_Witness ==
    /\ site_pc = "done"
    /\ Len(scores) = 2 /\ scores[1].fname = "c" /\ scores[2].fname = "a"
    /\ gantt_dir = {"a.html", "c.html", "old.html"}
    /\ gantt_md = Some(<<Iframe("a.html"), Iframe("c.html"), Iframe("old.html")>>)

InitMeta ==
    /\ md_pc = MetaSteps[1]
    /\ folders \in [Range(FolderOrder) -> Files]
    /\ concatenated = EmptyFrame
    /\ tsv_file = None
    /\ readme \in Readmes
    /\ md_str = <<>>
    /\ error = NoneStr
    /\ written = {}

NextMeta ==
    \/ CallConcatMetadata \/ CheckEmpty \/ write_tsv \/ CallMetadata2Markdown
    \/ write_md
MetaInit == InitMeta /\ IdlePlan /\ IdlePhrase /\ IdleSite /\ IdleBool /\ IdleReadme
SpecMeta == MetaInit /\ [][NextMeta]_vars

----------------------------------------------------------------------------
(* Claims about concat_metadata.py.                                        *)

HasFile(k) == folders[k].isfile

\* The number of rows of the metadata files of the first n child directories.
RECURSIVE RowsUpTo(_)
RowsUpTo(n) ==
    IF n = 0 THEN 0
    ELSE RowsUpTo(n - 1)
            + (IF HasFile(FolderOrder[n]) THEN Len(folders[FolderOrder[n]].rows) ELSE 0)

\* The cell of column c that row j of the file of directory k contributes.
CellRead(k, j, c) ==
    IF c \in folders[k].columns THEN read_csv(folders[k]).rows[j][c] ELSE NA

\* C5: in the table concat_metadata returns, the relative-path column (the
\* first of 'subdirectory', 'rel_paths' the table has) holds, for every row,
\* the value of the row's file prefixed once with the name of its
\* subdirectory; so does 'rel_path' if the table has it; every other cell is
\* the cell that was read.
C5_PathsPrefixed ==
    concatenated # EmptyFrame =>
        LET rel_path_col == IF "subdirectory" \in concatenated.columns
                            THEN "subdirectory" ELSE "rel_paths"
            rewritten == {rel_path_col} \cup ({"rel_path"} \cap concatenated.columns)
        IN  /\ rel_path_col \in concatenated.columns
            /\ Len(concatenated.rows) = RowsUpTo(Len(FolderOrder))
            /\ \A n \in DOMAIN FolderOrder :
                 LET k == FolderOrder[n]
                 IN  HasFile(k) =>
                       \A j \in DOMAIN folders[k].rows :
                          LET row == concatenated.rows[RowsUpTo(n - 1) + j]
                          IN  /\ row.corpus = k
                              /\ \A c \in rewritten :
                                   /\ c \in folders[k].columns
                                   /\ row.cells[c] = <<k, "/">> \o folders[k].rows[j][c]
                              /\ \A c \in concatenated.columns \ rewritten :
                                   row.cells[c] = CellRead(k, j, c)

\* Two legacy files with one row each: both path columns of both rows carry
\* the name of their own subdirectory.
C5_Witness ==
    /\ md_pc = "check_empty"
    /\ Len(concatenated.rows) = 2
    /\ concatenated.columns = {"rel_paths", "rel_path", "fnames"} \cup StatColumns
    /\ Len(folders["corpA"].rows) = 1
    /\ folders["corpA"].rows[1]["rel_paths"] = <<".">>
    /\ concatenated.rows[1].cells["rel_paths"] = <<"corpA", "/", ".">>
    /\ concatenated.rows[1].cells["rel_path"] = <<"corpA", "/", "MS3">>
    /\ concatenated.rows[2].cells["rel_paths"] = <<"corpB", "/", "MS3">>
    /\ concatenated.rows[2].cells["rel_path"] = <<"corpB", "/", "MS3">>
    /\ concatenated.rows[2].cells["fnames"] = <<"f1">>

NoMetadataFiles == \A k \in DOMAIN folders : ~HasFile(k)

\* C6: when no child directory has a metadata.tsv, concat_metadata returns an
\* empty table without raising, and main reports that no metadata was found
\* and returns; no step of the run creates or changes
\* concatenated_metadata.tsv or README.md.
C6_NoMetadata ==
    [][(NoMetadataFiles /\ md_pc # "idle")
        => /\ error' = NoneStr
           /\ concatenated' = EmptyFrame
           /\ md_pc = "concat_metadata" => md_pc' \in {"concat_metadata", "check_empty"}
           /\ md_pc = "check_empty" => md_pc' \in {"check_empty", "no_metadata"}
           /\ md_pc = "no_metadata" => md_pc' = "no_metadata"
           /\ md_pc \in {"concat_metadata", "check_empty", "no_metadata"}
           /\ tsv_file' = tsv_file /\ readme' = readme /\ written' = {}]_vars

\* main has returned after reporting that there is no metadata; the README.md
\* that existed is as it was.
C6_Witness ==
    /\ NoMetadataFiles /\ md_pc = "no_metadata"
    /\ readme = Some(<<"#", " ", "Title", "\n", "text", "\n">>)
    /\ tsv_file = None /\ written = {}

\* A line that is the heading of the overview section: one to three '#', a
\* blank, 'Overview', and the end of the line.
IsOverviewHeading(line) ==
    \E n \in 1..3 :
        /\ Len(line) \in {n + 2, n + 3}
        /\ \A i \in 1..n : line[i] = "#"
        /\ line[n + 1] = " " /\ line[n + 2] = "Overview"
        /\ Len(line) = n + 3 => line[n + 3] = "\n"

\* The lines before the first heading of the overview section.
RECURSIVE BeforeHeading(_)
BeforeHeading(lines) ==
    IF lines = <<>> \/ IsOverviewHeading(Head(lines)) THEN <<>>
    ELSE Head(lines) \o BeforeHeading(Tail(lines))

\* C7: write_md keeps the lines before the heading of the overview section and
\* replaces the heading and what follows by the overview; without such a
\* heading it keeps every line and appends the overview after a blank
\* separator; without a file it creates one that contains the overview.  A
\* line that is not the heading never starts the section.
C7_WriteMd ==
    [][(md_pc = "write_md" /\ md_pc' = "done")
        => IF ~readme.some
           THEN \E n \in 0..2 : SubSeq(readme'.val, n + 1, Len(readme'.val)) = md_str
           ELSE LET lines == ReadLines(readme.val, <<>>)
                IN  IF \E i \in DOMAIN lines : IsOverviewHeading(lines[i])
                    THEN readme'.val = BeforeHeading(lines) \o md_str
                    ELSE readme'.val = readme.val \o <<"\n", "\n">> \o md_str]_vars

MissingColumnErrors == {RelPathError, FnameError}

\* C10 as stated: when the run aborts because a required column is missing,
\* neither output file has been created or modified.
C10_AbortWritesNothing ==
    (md_pc = "error" /\ error \in MissingColumnErrors)
        => written = {} /\ tsv_file = None

\* C10, amended: a missing relative-path column aborts the run in
\* concat_metadata, before anything is written; a missing file-name column
\* aborts it in metadata2markdown, after concatenated_metadata.tsv has been
\* written and before README.md is opened.
C10_AbortAmended ==
    /\ (md_pc = "error" /\ error = RelPathError)
         => written = {} /\ tsv_file = None /\ concatenated = EmptyFrame
    /\ (md_pc = "error" /\ error = FnameError)
         => /\ written = {TSV_PATH} /\ tsv_file.some
            /\ concatenated.columns \cap {"fname", "fnames"} = {}
    /\ (\E k \in DOMAIN folders : HasFile(k))
         /\ (\A k \in DOMAIN folders :
                HasFile(k) => folders[k].columns \cap {"subdirectory", "rel_paths"} = {})
         => /\ md_pc \in {"concat_metadata", "error"}
            /\ md_pc = "error" => error = RelPathError
    /\ (concatenated.columns # {} /\ concatenated.columns \cap {"fname", "fnames"} = {})
         => md_pc \notin {"write_md", "done"} /\ MD_PATH \notin written

\* The run has aborted for the missing file-name column, and the table is
\* already on disk.
C10_Witness ==
    /\ md_pc = "error" /\ error = FnameError
    /\ written = {TSV_PATH} /\ tsv_file.some
    /\ readme = Some(<<"#", " ", "Title", "\n", "text", "\n">>)

NextBool == CallInt2Bool
BoolInit == InitBool /\ IdlePlan /\ IdlePhrase /\ IdleSite /\ IdleMeta /\ IdleReadme
SpecBool == BoolInit /\ [][NextBool]_vars

----------------------------------------------------------------------------
(* Claims about int2bool.                                                  *)

\* The str spells the word, in any mixture of upper and lower case.
Spells(v, word) ==
    /\ IsStr(v) /\ Len(v) = Len(word)
    /\ \A i \in DOMAIN word : v[i] \in {word[i], UpperChar(word[i])}

\* C11: int2bool returns for every argument and never raises: True for a str
\* that spells 't' or 'true' in any case, False for one that spells 'f' or
\* 'false'; for any other value that int() converts, True if the integer is
\* not zero and False if it is zero; any other value itself.
C11_Int2Bool ==
    b_pc \notin {"idle", "call"} =>
        /\ b_pc = "returned" /\ b_out.raised = NoneStr
        /\ b_out.value =
             IF Spells(b_arg, <<"t">>) \/ Spells(b_arg, <<"t", "r", "u", "e">>)
             THEN Bool(TRUE)
             ELSE IF Spells(b_arg, <<"f">>) \/ Spells(b_arg, <<"f", "a", "l", "s", "e">>)
             THEN Bool(FALSE)
             ELSE IF int(b_arg).raised = NoneStr
             THEN Bool(int(b_arg).value # 0)
             ELSE b_arg

\* None, which int() rejects with a TypeError, has come back unchanged.
C11_Witness ==
    b_pc = "returned" /\ b_arg = PyNone /\ b_out = [raised |-> NoneStr, value |-> PyNone]

----------------------------------------------------------------------------
(* Claims about the table concat_metadata returns.                         *)

Returned == md_pc = "check_empty"

\* Row for row, the table is the files of the child directories that have a
\* metadata.tsv, one directory after the other in the order of their names
\* and each in the order of its file; each row is labelled with its directory
\* and has no second index value.
RowsInOrder ==
    /\ Len(concatenated.rows) = RowsUpTo(Len(FolderOrder))
    /\ \A n \in DOMAIN FolderOrder :
         LET k == FolderOrder[n]
         IN  HasFile(k) =>
               \A j \in DOMAIN folders[k].rows :
                  LET row == concatenated.rows[RowsUpTo(n - 1) + j]
                  IN  /\ DOMAIN row = {"corpus", "cells"}
                      /\ row.corpus = k
                      /\ \A c \in folders[k].columns \ {"subdirectory", "rel_paths", "rel_path"} :
                           row.cells[c] = CellRead(k, j, c)
                      /\ \A c \in concatenated.columns \ folders[k].columns :
                           row.cells[c] = NA
    /\ \A i \in DOMAIN concatenated.rows : HasFile(concatenated.rows[i].corpus)

\* C12 as stated: every table concat_metadata returns holds the rows of the
\* files in that order, and its index has the single level 'corpus'.
C12_ConcatNamedIndex ==
    Returned => RowsInOrder /\ concatenated.index = <<"corpus">>

\* C12, amended: the rows are those of the files, in that order; the index has
\* the single level 'corpus' when at least one child directory has a
\* metadata.tsv, and is the unnamed default index of an empty table when none
\* has.
C12_ConcatAmended ==
    Returned =>
        /\ RowsInOrder
        /\ concatenated.index = IF NoMetadataFiles THEN <<NoneStr>> ELSE <<"corpus">>
        /\ NoMetadataFiles => concatenated = EmptyFrame

\* Two rows of corpA in file order (f1 before f0), then the row of corpB.
C12_Witness ==
    /\ Returned
    /\ Len(folders["corpA"].rows) = 2 /\ Len(folders["corpB"].rows) = 1
    /\ concatenated.index = <<"corpus">>
    /\ Len(concatenated.rows) = 3
    /\ "fname" \in concatenated.columns
    /\ [i \in 1..3 |-> concatenated.rows[i].corpus] = <<"corpA", "corpA", "corpB">>
    /\ [i \in 1..3 |-> concatenated.rows[i].cells["fname"]]
         = << <<"f1">>, <<"f0">>, <<"f1">> >>

NextReadme == CallWriteMd
ReadmeInit == InitReadme /\ IdlePlan /\ IdlePhrase /\ IdleSite /\ IdleMeta /\ IdleBool
SpecReadme == ReadmeInit /\ [][NextReadme]_vars

----------------------------------------------------------------------------
(* Claims about repeated calls of write_md.                                *)

HeadingLines(text) ==
    LET lines == ReadLines(text, <<>>)
    IN  {i \in DOMAIN lines : IsOverviewHeading(lines[i])}

\* C13: after the second call of write_md with the same overview (and after
\* every later one) README.md is as the first call left it: it ends with the
\* overview and has one overview heading, whatever it held before the first
\* call.
C13_Idempotent ==
    wm_calls >= 2 =>
        /\ wm_file.some /\ wm_file = wm_once
        /\ Cardinality(HeadingLines(wm_file.val)) = 1
        /\ Len(wm_file.val) >= Len(wm_md)
        /\ SubSeq(wm_file.val, Len(wm_file.val) - Len(wm_md) + 1, Len(wm_file.val)) = wm_md

\* Two calls on a README.md without an overview section: the text, one blank
\* separator and one overview.
C13_Witness ==
    /\ wm_calls = 2
    /\ wm_file = wm_once
    /\ wm_file = Some(<<"#", " ", "Title", "\n", "text", "\n", "\n", "\n">> \o wm_md)
    /\ Len(wm_md) > 4

====
